---- MODULE Spec2Model ----
(***************************************************************************)
(* Model of the Nautilus corpus queue (algorithms/nautilus/fuzzer/         *)
(* queue.cpp) and of the Nautilus tree mutator (algorithms/nautilus/       *)
(* grammartec/mutator.cpp) of fuzzuf.                                      *)
(*                                                                         *)
(* Spec          the corpus queue: Add, Pop, Finished, NewRound            *)
(* SpecMinimize  Mutator::MinimizeTree, one loop iteration per step        *)
(* SpecRecursion Mutator::MutRandomRecursion                               *)
(***************************************************************************)
EXTENDS Integers, Sequences, FiniteSets, TLC

(***************************************************************************)
(* Bounds of the model.                                                    *)
(***************************************************************************)
\* length of the coverage map all_bits
NBits == 3
\* number of ids Add may hand out
MaxId == 2
\* cap on |inputs| + |processed| when NewRound copies entries
MaxQueue == 2
\* number of Add calls that may fail to create their corpus file
MaxFail == 1
\* number of popped items the caller may hold before calling Finished
MaxHeld == 1
\* number of nodes of the trees handed to the mutator
MaxTreeSize == 5
\* largest end_index handed to the mutator
MaxEnd == 6
\* largest k drawn for the degree of nesting 2 << k
MaxShift == 3

\* std::numeric_limits<size_t>::max().  size_t is 64 bits wide; the model
\* checker's integers are 32 bits wide, so the largest of them stands for it.
SIZE_MAX == 2147483647

VARIABLES
  \* ---- Queue ----
  inputs,          \* std::vector<QueueItem> _inputs
  processed,       \* std::vector<QueueItem> _processed
  bit_to_inputs,   \* std::unordered_map<size_t, std::vector<size_t>>
  current_id,      \* size_t _current_id
  files,           \* corpus files <work_dir>/queue/id:<id>,er:<er>
  held,            \* items returned by Pop that the caller still owns
  io_failures,     \* number of Add calls whose Util::OpenFile failed
  qop,             \* the last queue operation, its arguments and outcome
  \* ---- Mutator ----
  tree,            \* Tree& tree
  tree_in,         \* the tree as it was handed to the mutator
  start_index,     \* size_t start_index
  end_index,       \* size_t end_index
  i,               \* the loop index i
  pc,              \* position of the running mutator function
  ret,             \* its return value
  verdict,         \* answers the FTester has given, by proposed tree
  examined,        \* node indices visited so far, in visiting order
  rejected,        \* node indices whose proposal the tester rejected
  probe,           \* outcome of a TestAndConvert on the minimized tree
  recursion,       \* what MutRandomRecursion drew and built
  proposal,        \* what the last loop pass handed to the tester
  tested,          \* <<node, rule>> of every tester call of MutRules, in order
  collapsed,       \* index of the ancestor the last pass collapsed, or -1
  \* ---- VUzzer ----
  pending_queue,   \* state.pending_queue, the testcases by number
  queued_paths,    \* state.queued_paths
  pop_size,        \* state.setting->pop_size
  good_bbs,        \* state.good_bbs
  ehb,             \* state.ehb
  vpc,             \* position of the VUzzer constructor or loop
  vi,              \* the loop index of the running PerformDryRun loop
  put_runs,        \* number of RunExecutor calls made
  taint_runs,      \* number of RunTaintExecutor calls made
  random_runs,     \* number of TotallyRandom inputs executed
  seed_bbs,        \* basic blocks seen in the runs of the seeds
  random_bbs,      \* basic blocks seen in the runs of the random inputs
  seed_size,       \* u32 seed_size of the constructor
  fill_size,       \* u32 size of FillSeeds
  sz,              \* u32 sz of FillSeeds
  initial_queue,   \* initial_queue of FillSeeds
  parents,         \* the parents FillSeeds sampled last
  flow_stack,      \* nodes of the fuzz flow still to be called
  flow_trace       \* nodes called in the running iteration, in order

qvars == <<inputs, processed, bit_to_inputs, current_id, files, held,
          io_failures, qop>>
hvars == <<proposal, tested, collapsed>>
mvars == <<tree, tree_in, start_index, end_index, i, pc, ret, verdict, examined,
           rejected, probe, recursion, proposal, tested, collapsed>>
vvars == <<pending_queue, queued_paths, pop_size, good_bbs, ehb, vpc, vi,
           put_runs, taint_runs, random_runs, seed_bbs, random_bbs, seed_size,
           fill_size, sz, initial_queue, parents, flow_stack, flow_trace>>
vars == <<inputs, processed, bit_to_inputs, current_id, files, held,
          io_failures, qop,
          tree, tree_in, start_index, end_index, i, pc, ret, verdict,
          examined, rejected, probe, recursion, proposal, tested, collapsed,
          pending_queue, queued_paths, pop_size, good_bbs, ehb, vpc, vi,
          put_runs, taint_runs, random_runs, seed_bbs, random_bbs, seed_size,
          fill_size, sz, initial_queue, parents, flow_stack, flow_trace>>

Range(s) == {s[k] : k \in 1..Len(s)}

(***************************************************************************)
(* Queue                                                                   *)
(***************************************************************************)
\* the coverage maps Add can be given: all_bits.size() == NBits
Bitmaps == [0..(NBits - 1) -> {0, 1}]

\* PUTExitReasonType values used for the file name
ExitReasons == {0}

\* the set bits of a coverage map
SetBits(all_bits) == {b \in DOMAIN all_bits : all_bits[b] # 0}

\* the loop computing all_zero: no set bit is missing from the index
AllZeroMut(all_bits, index) == \A b \in DOMAIN all_bits : all_bits[b] = 0
AllZero(all_bits, index) ==
  \A b \in DOMAIN all_bits : ~(all_bits[b] # 0 /\ b \notin DOMAIN index)

\* the fresh_bits set built by the second loop
CollectFreshMut(all_bits, index) == SetBits(all_bits)
CollectFresh(all_bits, index) ==
  {b \in DOMAIN all_bits : all_bits[b] # 0 /\ b \notin DOMAIN index}

\* the second loop's effect on _bit_to_inputs: create missing lists, push id
RegisterBitsFront(all_bits, index, id) ==
  [b \in DOMAIN index \cup SetBits(all_bits) |->
     IF all_bits[b] # 0
       THEN <<id>> \o (IF b \in DOMAIN index THEN index[b] ELSE <<>>)
       ELSE index[b]]
RegisterBitsMut(all_bits, index, id) ==
  [b \in DOMAIN index \cup SetBits(all_bits) |->
     IF b \in DOMAIN index THEN index[b] ELSE <<id>>]
RegisterBits(all_bits, index, id) ==
  [b \in DOMAIN index \cup SetBits(all_bits) |->
     IF all_bits[b] # 0
       THEN Append(IF b \in DOMAIN index THEN index[b] ELSE <<>>, id)
       ELSE index[b]]

\* v.erase(position p), positions counted from 1
EraseAt(v, p) == [k \in 1..(Len(v) - 1) |-> IF k < p THEN v[k] ELSE v[k + 1]]

\* the reverse scan of Pop over one posting list, from position p downwards.
\* erase() leaves the reverse iterator on the slot of the erased element, so
\* the following ++vit continues with the element in front of it.
RECURSIVE RetainFrom(_, _, _)
RetainFrom(v, id, p) ==
  IF p = 0 THEN v
  ELSE IF v[p] = id THEN RetainFrom(EraseAt(v, p), id, p - 1)
       ELSE RetainFrom(v, id, p - 1)

RetainMut(v, id) ==
  IF Len(v) > 0 /\ v[Len(v)] = id THEN EraseAt(v, Len(v)) ELSE v
Retain(v, id) == RetainFrom(v, id, Len(v))

\* Pop's two loops over _bit_to_inputs: purge id, then erase the empty lists
PurgeId(index, id) ==
  LET purged == [b \in DOMAIN index |-> Retain(index[b], id)]
      to_remove == {b \in DOMAIN index : purged[b] = <<>>}
  IN [b \in DOMAIN index \ to_remove |-> purged[b]]

\* the increment of _current_id
NextIdMut(id) == IF id = SIZE_MAX THEN 1 ELSE id + 1
NextId(id) == IF id = SIZE_MAX THEN 0 ELSE id + 1

QueueItem(id, fresh_bits, all_bits, exit_reason) ==
  [id |-> id, fresh_bits |-> fresh_bits, all_bits |-> all_bits,
   exit_reason |-> exit_reason]

QInit ==
  /\ inputs = <<>>
  /\ processed = <<>>
  /\ bit_to_inputs = <<>>
  /\ current_id = 0
  /\ files = {}
  /\ held = {}
  /\ io_failures = 0
  /\ qop = [name |-> "init"]

\* Queue::Add; open_ok is the outcome of Util::OpenFile
AddEager(all_bits, exit_reason, open_ok) ==
  /\ current_id < MaxId \/ current_id = SIZE_MAX
  /\ open_ok \/ io_failures < MaxFail
  /\ IF AllZero(all_bits, bit_to_inputs)
       THEN /\ qop' = [name |-> "Add", outcome |-> "skipped",
                       nonzero |-> SetBits(all_bits) # {}]
            /\ current_id' = NextId(current_id)
            /\ UNCHANGED <<inputs, processed, bit_to_inputs, files, held,
                           io_failures>>
       ELSE LET fresh_bits == CollectFresh(all_bits, bit_to_inputs)
            IN /\ bit_to_inputs' =
                    RegisterBits(all_bits, bit_to_inputs, current_id)
               /\ IF open_ok
                    THEN /\ files' = files \cup {<<current_id, exit_reason>>}
                         /\ inputs' = Append(inputs,
                              QueueItem(current_id, fresh_bits, all_bits,
                                        exit_reason))
                         /\ current_id' = NextId(current_id)
                         /\ qop' = [name |-> "Add", outcome |-> "added"]
                         /\ UNCHANGED io_failures
                    ELSE /\ qop' = [name |-> "Add",
                                    outcome |-> "unable_to_create_file"]
                         /\ io_failures' = io_failures + 1
                         /\ UNCHANGED <<inputs, current_id, files>>
               /\ UNCHANGED <<processed, held>>
  /\ UNCHANGED mvars
  /\ UNCHANGED vvars
Add(all_bits, exit_reason, open_ok) ==
  /\ current_id < MaxId \/ current_id = SIZE_MAX
  /\ open_ok \/ io_failures < MaxFail
  /\ IF AllZero(all_bits, bit_to_inputs)
       THEN /\ qop' = [name |-> "Add", outcome |-> "skipped",
                       nonzero |-> SetBits(all_bits) # {}]
            /\ UNCHANGED <<inputs, processed, bit_to_inputs, current_id,
                           files, held, io_failures>>
       ELSE LET fresh_bits == CollectFresh(all_bits, bit_to_inputs)
            IN /\ bit_to_inputs' =
                    RegisterBits(all_bits, bit_to_inputs, current_id)
               /\ IF open_ok
                    THEN /\ files' = files \cup {<<current_id, exit_reason>>}
                         /\ inputs' = Append(inputs,
                              QueueItem(current_id, fresh_bits, all_bits,
                                        exit_reason))
                         /\ current_id' = NextId(current_id)
                         /\ qop' = [name |-> "Add", outcome |-> "added"]
                         /\ UNCHANGED io_failures
                    ELSE /\ qop' = [name |-> "Add",
                                    outcome |-> "unable_to_create_file"]
                         /\ io_failures' = io_failures + 1
                         /\ UNCHANGED <<inputs, current_id, files>>
               /\ UNCHANGED <<processed, held>>
  /\ UNCHANGED mvars
  /\ UNCHANGED vvars

\* Queue::Pop
Pop ==
  /\ Len(inputs) > 0
  /\ Cardinality(held) < MaxHeld
  /\ LET item == inputs[Len(inputs)]
     IN /\ inputs' = SubSeq(inputs, 1, Len(inputs) - 1)
        /\ bit_to_inputs' = PurgeId(bit_to_inputs, item.id)
        /\ held' = held \cup {item}
        /\ qop' = [name |-> "Pop", item |-> item]
  /\ UNCHANGED <<processed, current_id, files, io_failures>>
  /\ UNCHANGED mvars
  /\ UNCHANGED vvars

\* Queue::Finished.  The file it deletes lies under <work_dir>/outputs/queue,
\* a directory no queue operation writes to, so files stays as it is.
Finished(item) ==
  /\ item \in held
  /\ held' = held \ {item}
  /\ IF AllZero(item.all_bits, bit_to_inputs)
       THEN /\ qop' = [name |-> "Finished", item |-> item,
                       outcome |-> "dropped"]
            /\ UNCHANGED <<processed, bit_to_inputs>>
       ELSE /\ bit_to_inputs' =
                 RegisterBits(item.all_bits, bit_to_inputs, item.id)
            /\ processed' = Append(processed, item)
            /\ qop' = [name |-> "Finished", item |-> item,
                       outcome |-> "kept"]
  /\ UNCHANGED <<inputs, current_id, files, io_failures>>
  /\ UNCHANGED mvars
  /\ UNCHANGED vvars

\* Queue::NewRound
NewRound ==
  /\ Len(inputs) + Len(processed) <= MaxQueue
  /\ inputs' = inputs \o processed
  /\ qop' = [name |-> "NewRound"]
  /\ UNCHANGED <<processed, bit_to_inputs, current_id, files, held,
                 io_failures>>
  /\ UNCHANGED mvars
  /\ UNCHANGED vvars

\* no VUzzer instance
VIdle ==
  /\ pending_queue = <<>>
  /\ queued_paths = 0
  /\ pop_size = 0
  /\ good_bbs = {}
  /\ ehb = {}
  /\ vpc = "idle"
  /\ vi = 0
  /\ put_runs = 0
  /\ taint_runs = 0
  /\ random_runs = 0
  /\ seed_bbs = {}
  /\ random_bbs = {}
  /\ seed_size = 0
  /\ fill_size = 0
  /\ sz = 0
  /\ initial_queue = <<>>
  /\ parents = <<>>
  /\ flow_stack = <<>>
  /\ flow_trace = <<>>

MIdle ==
  /\ tree = [rules |-> <<>>, sizes |-> <<>>]
  /\ tree_in = [rules |-> <<>>, sizes |-> <<>>]
  /\ start_index = 0
  /\ end_index = 0
  /\ i = 0
  /\ pc = "idle"
  /\ ret = FALSE
  /\ verdict = <<>>
  /\ examined = <<>>
  /\ rejected = {}
  /\ probe = [node |-> -1]
  /\ recursion = [rec0 |-> -1]
  /\ proposal = [node |-> -1]
  /\ tested = <<>>
  /\ collapsed = -1

Init == QInit /\ MIdle /\ VIdle

Next ==
  \/ \E all_bits \in Bitmaps, exit_reason \in ExitReasons, open_ok \in BOOLEAN :
       Add(all_bits, exit_reason, open_ok)
  \/ Pop
  \/ \E item \in held : Finished(item)
  \/ NewRound

Spec == Init /\ [][Next]_vars

(***************************************************************************)
(* Grammar context and derivation trees                                    *)
(***************************************************************************)
\* element k of a zero-based vector
At(v, k) == v[k + 1]

NTerms == {"S", "A"}

\* the rules of the context, indexed by RuleID:
\*   0: S -> a S b    1: S -> ab    2: S -> A A    3: A -> x    4: A -> ( S )
Grammar ==
  << [nt |-> "S", rhs |-> <<"a", "S", "b">>],
     [nt |-> "S", rhs |-> <<"ab">>],
     [nt |-> "S", rhs |-> <<"A", "A">>],
     [nt |-> "A", rhs |-> <<"x">>],
     [nt |-> "A", rhs |-> <<"(", "S", ")">>] >>

RuleIDs == 0..(Len(Grammar) - 1)

\* Rule::Nonterm
Nonterm(r) == At(Grammar, r).nt

\* the nonterminals on the right-hand side of a rule, in order
Nonterms(r) ==
  SelectSeq(At(Grammar, r).rhs, LAMBDA sym : sym \in NTerms)

\* Context::GetRulesForNT
GetRulesForNT(nt) == {r \in RuleIDs : Nonterm(r) = nt}

SumSeq(f, q) ==
  LET RECURSIVE Go(_)
      Go(k) == IF k = 0 THEN 0 ELSE f[q[k]] + Go(k - 1)
  IN Go(Len(q))

MinOf(S) == CHOOSE x \in S : \A y \in S : x <= y

\* Context::GetMinLenForNT: the least number of nodes of an expansion, as the
\* fixpoint over the productions (Unreached stands for "not yet known")
Unreached == 1000000
RECURSIVE MinLenIter(_, _)
MinLenIter(m, k) ==
  IF k = 0 THEN m
  ELSE MinLenIter(
         [nt \in NTerms |->
            MinOf({m[nt]} \cup
                  {1 + SumSeq(m, Nonterms(r)) : r \in GetRulesForNT(nt)})],
         k - 1)
MinLens == MinLenIter([nt \in NTerms |-> Unreached], Len(Grammar))
GetMinLenForNT(nt) == MinLens[nt]

\* the preorder rule sequences of the derivations of nt with exactly n nodes
RECURSIVE RuleVecs(_, _), ForestVecs(_, _)
RuleVecs(nt, n) ==
  IF n < 1 THEN {}
  ELSE UNION {{<<r>> \o f : f \in ForestVecs(Nonterms(r), n - 1)} :
               r \in GetRulesForNT(nt)}
ForestVecs(nts, n) ==
  IF nts = <<>> THEN (IF n = 0 THEN {<<>>} ELSE {})
  ELSE UNION {{t \o f : t \in RuleVecs(Head(nts), k),
                        f \in ForestVecs(Tail(nts), n - k)} : k \in 1..n}

\* one past the last node of the subtree at node n of a rule sequence
RECURSIVE SubtreeEnd(_, _), ChildrenEnd(_, _, _)
SubtreeEnd(rules, n) ==
  ChildrenEnd(rules, n + 1, Len(Nonterms(At(rules, n))))
ChildrenEnd(rules, pos, k) ==
  IF k = 0 THEN pos ELSE ChildrenEnd(rules, SubtreeEnd(rules, pos), k - 1)

\* Tree built from a rule vector: the sizes are computed from the rules
TreeFromRules(rules) ==
  [rules |-> rules,
   sizes |-> [k \in 1..Len(rules) |-> SubtreeEnd(rules, k - 1) - (k - 1)]]

\* Tree::Size, Tree::SubTreeSize, Tree::GetRuleOrCustom
Size(t) == Len(t.rules)
SubTreeSize(t, n) == At(t.sizes, n)
GetRule(t, n) == At(t.rules, n)

\* Tree::GetParent: the nearest node in front of n whose subtree contains n
GetParent(t, n) ==
  LET above == {p \in 0..(n - 1) : p + SubTreeSize(t, p) > n}
  IN IF above = {} THEN -1 ELSE CHOOSE p \in above : \A q \in above : q <= p

\* Context::GenerateFromNT into the scratchpad: the trees of nt whose size
\* does not exceed the budget, the minimum expansion if the budget is smaller
GenerateFromNT(nt, len) ==
  LET budget == IF len < GetMinLenForNT(nt) THEN GetMinLenForNT(nt) ELSE len
  IN {TreeFromRules(v) : v \in UNION {RuleVecs(nt, n) : n \in 1..budget}}

\* Tree::MutateReplaceFromTree: tree t with the subtree at n replaced by the
\* subtree of other at m, as prefix, replacement and postfix
MutateReplaceFromTree(t, n, other, m) ==
  [prefix |-> SubSeq(t.rules, 1, n),
   repl |-> SubSeq(other.rules, m + 1, m + SubTreeSize(other, m)),
   postfix |-> SubSeq(t.rules, n + SubTreeSize(t, n) + 1, Size(t))]

\* TreeMutation::ToTree
ToTree(mutation) ==
  TreeFromRules(mutation.prefix \o mutation.repl \o mutation.postfix)

\* Tree::UnparseTo: the terminal string of the subtree at node n
RECURSIVE UnparseSyms(_, _, _, _)
UnparseSyms(rules, syms, pos, acc) ==
  IF syms = <<>> THEN [text |-> acc, next |-> pos]
  ELSE IF Head(syms) \in NTerms
         THEN LET sub == UnparseSyms(rules, At(Grammar, At(rules, pos)).rhs,
                                     pos + 1, "")
              IN UnparseSyms(rules, Tail(syms), sub.next, acc \o sub.text)
         ELSE UnparseSyms(rules, Tail(syms), pos, acc \o Head(syms))
Unparse(rules) == UnparseSyms(rules, At(Grammar, At(rules, 0)).rhs, 1, "").text

\* the tree invariant: sizes[0] is the number of rules and every size is one
\* more than the sizes of the immediate children
RECURSIVE SpanEnd(_, _, _)
SpanEnd(t, pos, k) ==
  IF k = 0 THEN pos
  ELSE IF pos >= Len(t.sizes) \/ At(t.sizes, pos) < 1 THEN -1
       ELSE SpanEnd(t, pos + At(t.sizes, pos), k - 1)
TreeOK(t) ==
  /\ Len(t.rules) = Len(t.sizes)
  /\ Len(t.rules) >= 1
  /\ At(t.sizes, 0) = Len(t.rules)
  /\ \A n \in 0..(Len(t.rules) - 1) :
       SpanEnd(t, n + 1, Len(Nonterms(At(t.rules, n)))) = n + At(t.sizes, n)

\* the trees handed to the mutator: derivations of S of at most MaxTreeSize
InputTrees ==
  {TreeFromRules(v) : v \in UNION {RuleVecs("S", n) : n \in 1..MaxTreeSize}}

(***************************************************************************)
(* Mutator::MinimizeTree                                                   *)
(***************************************************************************)
\* the answers the FTester can give to a proposal.  The tester runs the
\* unparsed input, so it answers the same input the same way every time.
Answers(mutation) ==
  LET input == Unparse(ToTree(mutation).rules)
  IN IF input \in DOMAIN verdict THEN {verdict[input]} ELSE BOOLEAN

Record(mutation, accept) ==
  LET input == Unparse(ToTree(mutation).rules)
  IN IF input \in DOMAIN verdict THEN verdict ELSE verdict @@ (input :> accept)

\* Mutator::TestAndConvert; accept is what the tester returned
TestAndConvertOther(tree_a, n_a, tree_b, n_b, accept) ==
  IF accept THEN [has_value |-> TRUE, value |-> tree_b]
  ELSE [has_value |-> FALSE]
TestAndConvertMut(tree_a, n_a, tree_b, n_b, accept) ==
  IF accept THEN [has_value |-> TRUE, value |-> tree_a]
  ELSE [has_value |-> FALSE]
TestAndConvert(tree_a, n_a, tree_b, n_b, accept) ==
  LET repl == MutateReplaceFromTree(tree_a, n_a, tree_b, n_b)
  IN IF accept THEN [has_value |-> TRUE, value |-> ToTree(repl)]
     ELSE [has_value |-> FALSE]

\* "Make sure it's the smallest": the subtree at n is larger than the minimum
NeedsMinimizeMut(t, n) ==
  SubTreeSize(t, n) > GetMinLenForNT(Nonterm(GetRule(t, n))) + 1
NeedsMinimize(t, n) ==
  SubTreeSize(t, n) > GetMinLenForNT(Nonterm(GetRule(t, n)))

\* the test of the incremented index against end_index
ReachedEndMut(j, e) == j > e
ReachedEnd(j, e) == j = e

InitMutator(fn) ==
  /\ tree \in InputTrees
  /\ tree_in = tree
  /\ start_index \in 0..MaxEnd
  /\ end_index \in 0..MaxEnd
  /\ i = start_index
  /\ pc = fn
  /\ ret = FALSE
  /\ verdict = <<>>
  /\ examined = <<>>
  /\ rejected = {}
  /\ probe = [node |-> -1]
  /\ recursion = [rec0 |-> -1]
  /\ proposal = [node |-> -1]
  /\ tested = <<>>
  /\ collapsed = -1

\* one pass through the loop of Mutator::MinimizeTree, or its final return
MinimizeTreeStep ==
  /\ pc = "MinimizeTree"
  /\ IF i < Size(tree)
       THEN /\ examined' = Append(examined, i)
            /\ IF NeedsMinimize(tree, i)
                 THEN LET nt == Nonterm(GetRule(tree, i))
                      IN \E scratchpad \in
                              GenerateFromNT(nt, GetMinLenForNT(nt)) :
                           LET repl == MutateReplaceFromTree(
                                         tree, i, scratchpad, 0)
                           IN \E accept \in Answers(repl) :
                                LET t == TestAndConvert(
                                           tree, i, scratchpad, 0, accept)
                                IN /\ tree' = IF t.has_value THEN t.value
                                              ELSE tree
                                   /\ verdict' = Record(repl, accept)
                                   /\ rejected' = IF accept THEN rejected
                                                  ELSE rejected \cup {i}
                 ELSE UNCHANGED <<tree, verdict, rejected>>
            /\ i' = i + 1
            /\ IF ReachedEnd(i + 1, end_index)
                 THEN pc' = "done" /\ ret' = FALSE
                 ELSE UNCHANGED <<pc, ret>>
       ELSE /\ pc' = "done"
            /\ ret' = TRUE
            /\ UNCHANGED <<tree, i, verdict, examined, rejected>>
  /\ UNCHANGED <<tree_in, start_index, end_index, probe, recursion>>
  /\ UNCHANGED hvars
  /\ UNCHANGED qvars
  /\ UNCHANGED vvars

\* after MinimizeTree returned true: TestAndConvert of the minimum subtree at
\* a node of the result that is larger than the minimum
ProbeMinimum ==
  /\ pc = "done"
  /\ ret = TRUE
  /\ \E n \in 0..(Size(tree) - 1) :
       /\ NeedsMinimize(tree, n)
       /\ LET nt == Nonterm(GetRule(tree, n))
          IN \E scratchpad \in GenerateFromNT(nt, GetMinLenForNT(nt)) :
               LET repl == MutateReplaceFromTree(tree, n, scratchpad, 0)
               IN \E accept \in Answers(repl) :
                    /\ probe' = [node |-> n,
                                 accepted |-> TestAndConvert(
                                   tree, n, scratchpad, 0, accept).has_value]
                    /\ verdict' = Record(repl, accept)
  /\ pc' = "probed"
  /\ UNCHANGED <<tree, tree_in, start_index, end_index, i, ret, examined,
                 rejected, recursion>>
  /\ UNCHANGED hvars
  /\ UNCHANGED qvars
  /\ UNCHANGED vvars

InitMinimize == QInit /\ InitMutator("MinimizeTree") /\ VIdle

NextMinimize == MinimizeTreeStep \/ ProbeMinimum

SpecMinimize == InitMinimize /\ [][NextMinimize]_vars

(***************************************************************************)
(* Mutator::MutRandomRecursion                                             *)
(***************************************************************************)
\* the recursion pairs of a tree: an ancestor and a descendant that share
\* their nonterminal
RecursionPairs(t) ==
  {pair \in (0..(Size(t) - 1)) \X (0..(Size(t) - 1)) :
     /\ pair[1] < pair[2]
     /\ pair[2] < pair[1] + SubTreeSize(t, pair[1])
     /\ Nonterm(GetRule(t, pair[1])) = Nonterm(GetRule(t, pair[2]))}

\* "Repeat recursion": num_of_recursions copies of the entries in front of rec1
RepeatRecursionMut(v, rec0, pre, reps) ==
  [k \in 1..(reps * pre + pre) |-> At(v, rec0 + ((k - 1) % pre))]
RepeatRecursion(v, rec0, pre, reps) ==
  [k \in 1..(reps * pre) |-> At(v, rec0 + ((k - 1) % pre))]

\* "Append the ending of the original tree"
AppendEnding(acc, v, rec1, postfix) ==
  acc \o [k \in 1..postfix |-> At(v, rec1 + (k - 1))]

\* "Adjust the sizes"
AdjustSizes(sizes_new, pre, total, reps) ==
  [k \in 1..Len(sizes_new) |->
     IF k - 1 < reps * pre /\ sizes_new[k] >= pre
       THEN sizes_new[k] + (reps - ((k - 1) \div pre) - 1) * total
       ELSE sizes_new[k]]

\* "Append post recursion"
AppendPostMut(acc, v, rec1, postfix, post, reps) ==
  acc \o [k \in 1..(reps * post) |-> At(v, rec1 + ((k - 1) % post))]
AppendPost(acc, v, rec1, postfix, post, reps) ==
  acc \o [k \in 1..(reps * post) |->
            At(v, rec1 + postfix + ((k - 1) % post))]

\* the body of Mutator::MutRandomRecursion for the pair (rec0, rec1) and the
\* degree of nesting max_len_of_recursions
BuildRecursion(t, rec0, rec1, max_len_of_recursions) ==
  LET recursion_len_pre == rec1 - rec0
      recursion_len_total == SubTreeSize(t, rec0) - SubTreeSize(t, rec1)
      recursion_len_post == recursion_len_total - recursion_len_pre
      num_of_recursions == max_len_of_recursions \div recursion_len_total
      postfix == SubTreeSize(t, rec1)
      rules_new ==
        AppendPost(
          AppendEnding(
            RepeatRecursion(t.rules, rec0, recursion_len_pre,
                            num_of_recursions),
            t.rules, rec1, postfix),
          t.rules, rec1, postfix, recursion_len_post, num_of_recursions)
      sizes_new ==
        AppendPost(
          AdjustSizes(
            AppendEnding(
              RepeatRecursion(t.sizes, rec0, recursion_len_pre,
                              num_of_recursions),
              t.sizes, rec1, postfix),
            recursion_len_pre, recursion_len_total, num_of_recursions),
          t.sizes, rec1, postfix, recursion_len_post, num_of_recursions)
      recursion_tree == [rules |-> rules_new, sizes |-> sizes_new]
  IN [rec0 |-> rec0, rec1 |-> rec1,
      max_len_of_recursions |-> max_len_of_recursions,
      recursion_len_pre |-> recursion_len_pre,
      recursion_len_total |-> recursion_len_total,
      recursion_len_post |-> recursion_len_post,
      num_of_recursions |-> num_of_recursions,
      postfix |-> postfix,
      recursion_tree |-> recursion_tree,
      repl |-> MutateReplaceFromTree(t, rec1, recursion_tree, 0)]

\* Mutator::MutRandomRecursion; the FTesterMut only observes the mutation
MutRandomRecursionMut ==
  /\ pc = "MutRandomRecursion"
  /\ IF RecursionPairs(tree) = {}
       THEN UNCHANGED recursion
       ELSE \E k \in 1..MaxShift, pair \in RecursionPairs(tree) :
              recursion' = BuildRecursion(tree, pair[1], pair[2], 2 ^ k)
  /\ pc' = "done"
  /\ UNCHANGED <<tree, tree_in, start_index, end_index, i, ret, verdict,
                 examined, rejected, probe>>
  /\ UNCHANGED hvars
  /\ UNCHANGED qvars
  /\ UNCHANGED vvars
MutRandomRecursion ==
  /\ pc = "MutRandomRecursion"
  /\ IF RecursionPairs(tree) = {}
       THEN UNCHANGED recursion
       ELSE \E k \in 1..MaxShift, pair \in RecursionPairs(tree) :
              recursion' = BuildRecursion(tree, pair[1], pair[2], 2 * (2 ^ k))
  /\ pc' = "done"
  /\ UNCHANGED <<tree, tree_in, start_index, end_index, i, ret, verdict,
                 examined, rejected, probe>>
  /\ UNCHANGED hvars
  /\ UNCHANGED qvars
  /\ UNCHANGED vvars

InitRecursion ==
  /\ QInit
  /\ VIdle
  /\ InitMutator("MutRandomRecursion")
  /\ start_index = 0
  /\ end_index = 0

NextRecursion == MutRandomRecursion

SpecRecursion == InitRecursion /\ [][NextRecursion]_vars

(***************************************************************************)
(* Properties of the queue, checked under Spec                             *)
(***************************************************************************)
\* the QueueItems the queue owns: pending or processed
Owned == Range(inputs) \cup Range(processed)

\* C1: every key b of bit_to_inputs has a non-empty posting list, and every
\* id in that list is the id of a QueueItem in inputs or processed whose
\* all_bits[b] is set.
C1_IndexSound ==
  \A b \in DOMAIN bit_to_inputs :
    /\ bit_to_inputs[b] # <<>>
    /\ \A k \in 1..Len(bit_to_inputs[b]) :
         \E item \in Owned :
           /\ item.id = bit_to_inputs[b][k]
           /\ item.all_bits[b] # 0

\* C2: a NewRound step appends the processed entries to inputs in their
\* order and leaves processed empty.
C2_NewRoundMoves ==
  [][qop'.name = "NewRound" =>
       /\ inputs' = inputs \o processed
       /\ processed' = <<>>]_vars

\* C3: the item an accepting Add appends has a non-empty fresh_bits set, which
\* is exactly the set bits that were no key of bit_to_inputs before the call,
\* and afterwards the item's id ends the posting list of each of its set bits.
C3_AddFreshBits ==
  [][(qop'.name = "Add" /\ qop'.outcome = "added") =>
       /\ Len(inputs') = Len(inputs) + 1
       /\ LET item == inputs'[Len(inputs')]
          IN /\ item.fresh_bits # {}
             /\ item.fresh_bits =
                  {b \in DOMAIN item.all_bits :
                     item.all_bits[b] # 0 /\ b \notin DOMAIN bit_to_inputs}
             /\ \A b \in DOMAIN item.all_bits :
                  item.all_bits[b] # 0 =>
                    /\ b \in DOMAIN bit_to_inputs'
                    /\ bit_to_inputs'[b][Len(bit_to_inputs'[b])] = item.id]_vars

\* an accepting Add whose coverage also had bits that were indexed already
C3_Witness ==
  /\ qop.name = "Add" /\ qop.outcome = "added"
  /\ LET item == inputs[Len(inputs)]
     IN /\ item.fresh_bits # {}
        /\ item.fresh_bits # SetBits(item.all_bits)

\* C4: Add with coverage that has no set bit outside the keys of
\* bit_to_inputs changes neither inputs, processed, bit_to_inputs nor the
\* corpus files.
C4_AddNoFreshIsNoOp ==
  [][\A all_bits \in Bitmaps, exit_reason \in ExitReasons, open_ok \in BOOLEAN :
       (/\ Add(all_bits, exit_reason, open_ok)
        /\ \A b \in DOMAIN all_bits :
             all_bits[b] # 0 => b \in DOMAIN bit_to_inputs)
       => /\ inputs' = inputs
          /\ processed' = processed
          /\ bit_to_inputs' = bit_to_inputs
          /\ files' = files]_vars

\* an Add was skipped although its coverage had set bits
C4_Witness ==
  /\ qop.name = "Add" /\ qop.outcome = "skipped"
  /\ qop.nonzero
  /\ inputs # <<>>

\* C5: Pop removes and returns the last element of inputs, removes every
\* occurrence of its id from every posting list, deletes exactly the keys
\* whose list became empty and keeps the other ids in their order.
C5_PopPurges ==
  [][qop'.name = "Pop" =>
       /\ Len(inputs) > 0
       /\ qop'.item = inputs[Len(inputs)]
       /\ inputs' = SubSeq(inputs, 1, Len(inputs) - 1)
       /\ DOMAIN bit_to_inputs' \subseteq DOMAIN bit_to_inputs
       /\ \A b \in DOMAIN bit_to_inputs :
            LET kept == SelectSeq(bit_to_inputs[b],
                                  LAMBDA x : x # qop'.item.id)
            IN IF kept = <<>>
                 THEN b \notin DOMAIN bit_to_inputs'
                 ELSE /\ b \in DOMAIN bit_to_inputs'
                      /\ bit_to_inputs'[b] = kept]_vars

\* the scenario of two inputs with disjoint bits, {0,2} with id 0 and {1}
\* with id 1: Pop has returned id 1 and the index holds id 0 for bits 0 and 2
C5_Witness ==
  /\ qop.name = "Pop"
  /\ qop.item.id = 1
  /\ SetBits(qop.item.all_bits) = {1}
  /\ DOMAIN bit_to_inputs = {0, 2}
  /\ \A b \in DOMAIN bit_to_inputs : bit_to_inputs[b] = <<0>>
  /\ Len(inputs) = 1

\* C6: Finished(item) drops the item and changes nothing when every set bit
\* of item.all_bits is a key of bit_to_inputs; otherwise it appends item.id
\* to the posting list of every set bit, creating the missing lists, and
\* appends the item to processed.
C6_FinishedGate ==
  [][qop'.name = "Finished" =>
       LET item == qop'.item
           bits == {b \in DOMAIN item.all_bits : item.all_bits[b] # 0}
       IN IF bits \subseteq DOMAIN bit_to_inputs
            THEN /\ qop'.outcome = "dropped"
                 /\ inputs' = inputs
                 /\ processed' = processed
                 /\ bit_to_inputs' = bit_to_inputs
            ELSE /\ qop'.outcome = "kept"
                 /\ inputs' = inputs
                 /\ processed' = Append(processed, item)
                 /\ DOMAIN bit_to_inputs' = DOMAIN bit_to_inputs \cup bits
                 /\ \A b \in DOMAIN bit_to_inputs' :
                      bit_to_inputs'[b] =
                        IF b \in bits
                          THEN (IF b \in DOMAIN bit_to_inputs
                                  THEN bit_to_inputs[b] ELSE <<>>)
                               \o <<item.id>>
                          ELSE bit_to_inputs[b]]_vars

\* a Finished that kept an item of which one bit was still indexed and
\* another was not
C6_Witness ==
  /\ qop.name = "Finished" /\ qop.outcome = "kept"
  /\ \E b \in DOMAIN bit_to_inputs :
       /\ qop.item.all_bits[b] # 0
       /\ Len(bit_to_inputs[b]) > 1
  /\ \E b \in DOMAIN bit_to_inputs :
       /\ qop.item.all_bits[b] # 0
       /\ bit_to_inputs[b] = <<qop.item.id>>

\* a Finished that dropped its item
C6_WitnessDropped == qop.name = "Finished" /\ qop.outcome = "dropped"

(***************************************************************************)
(* Properties of the mutator, checked under SpecRecursion and SpecMinimize  *)
(***************************************************************************)
\* C7: the trees the mutator works on and builds satisfy the tree invariant;
\* in particular the tree (rules_new, sizes_new) built by MutRandomRecursion
\* has sizes[0] equal to its number of rules and every size equal to one plus
\* the sizes of the immediate children.
C7_TreeIntegrity ==
  /\ TreeOK(tree)
  /\ recursion.rec0 >= 0 => TreeOK(recursion.recursion_tree)

\* C8: after MinimizeTree started at index 0 has returned true, a node of the
\* result that is larger than the minimum of its nonterminal cannot be
\* replaced by the minimum subtree: the tester rejects that replacement.
C8_MinimizationContract ==
  (pc = "probed" /\ start_index = 0) => ~probe.accepted

\* C8 as amended: after MinimizeTree started at index 0 has returned true,
\* every node of the result either has the minimum size of its nonterminal
\* or is one whose replacement by the minimum subtree the tester rejected
\* when the walk examined it.
C8_MinimizedOrRejected ==
  (pc \in {"done", "probed"} /\ ret /\ start_index = 0) =>
    \A n \in 0..(Size(tree) - 1) :
      \/ SubTreeSize(tree, n) = GetMinLenForNT(Nonterm(GetRule(tree, n)))
      \/ n \in rejected

\* a completed walk from index 0 that shrank the tree and left a node whose
\* minimization was rejected
C8_Witness ==
  /\ pc = "done" /\ ret /\ start_index = 0
  /\ tree # tree_in
  /\ \E n \in rejected :
       SubTreeSize(tree, n) > GetMinLenForNT(Nonterm(GetRule(tree, n)))

C9_WitnessStopped ==
  /\ pc = "done" /\ ~ret
  /\ start_index < end_index
  /\ end_index < Size(tree)

\* C10: when the tester accepts every proposal, MinimizeTree started at
\* index 0 and running to the end of the tree leaves the minimum expansion
\* of the root nonterminal; the tree of aaabbb becomes the one-node tree ab.
C10_AcceptAllMinimizes ==
  (pc = "done" /\ ret /\ start_index = 0 /\ rejected = {}) =>
    /\ Size(tree) = GetMinLenForNT(Nonterm(GetRule(tree_in, 0)))
    /\ Unparse(tree_in.rules) = "aaabbb" =>
         /\ tree.rules = <<1>>
         /\ tree.sizes = <<1>>
         /\ Unparse(tree.rules) = "ab"

\* the tree of aaabbb was minimized with every proposal accepted
C10_Witness ==
  /\ pc = "done" /\ ret /\ start_index = 0 /\ rejected = {}
  /\ Unparse(tree_in.rules) = "aaabbb"
  /\ DOMAIN verdict # {}
  /\ tree # tree_in

\* n copies of a sequence, one after the other
RECURSIVE Copies(_, _)
Copies(q, n) == IF n = 0 THEN <<>> ELSE q \o Copies(q, n - 1)

\* C11: the tree MutRandomRecursion builds for (rec0, rec1) and reps has
\* reps*pre + postfix + reps*post nodes, with pre = rec1 - rec0, total =
\* subtree_size(rec0) - subtree_size(rec1), post = total - pre and postfix =
\* subtree_size(rec1); its rules are reps copies of the opening region, the
\* inner subtree, and reps copies of the closing region, in that order.
C11_RecursionLayout ==
  recursion.rec0 >= 0 =>
    LET rec0 == recursion.rec0
        rec1 == recursion.rec1
        pre == rec1 - rec0
        total == tree.sizes[rec0 + 1] - tree.sizes[rec1 + 1]
        post == total - pre
        postfix == tree.sizes[rec1 + 1]
        reps == recursion.max_len_of_recursions \div total
        opening == SubSeq(tree.rules, rec0 + 1, rec1)
        inner == SubSeq(tree.rules, rec1 + 1, rec1 + postfix)
        closing == SubSeq(tree.rules, rec1 + postfix + 1,
                          rec0 + tree.sizes[rec0 + 1])
    IN /\ recursion.num_of_recursions = reps
       /\ Len(opening) = pre /\ Len(inner) = postfix /\ Len(closing) = post
       /\ Len(recursion.recursion_tree.rules) =
            reps * pre + postfix + reps * post
       /\ Len(recursion.recursion_tree.sizes) =
            reps * pre + postfix + reps * post
       /\ recursion.recursion_tree.rules =
            Copies(opening, reps) \o inner \o Copies(closing, reps)

\* a recursion with a closing region was repeated at least twice
C11_Witness ==
  /\ pc = "done"
  /\ recursion.rec0 >= 0
  /\ recursion.recursion_len_post > 0
  /\ recursion.num_of_recursions >= 2

\* C12: for the tree of aabb, whose sole recursion pair is (0, 1), four
\* repetitions yield a mutation that unparses to four a, then ab, then four b.
C12_MutationUnparse ==
  (/\ pc = "done"
   /\ tree.rules = <<0, 1>>
   /\ recursion.rec0 = 0 /\ recursion.rec1 = 1
   /\ recursion.num_of_recursions = 4) =>
    Unparse(ToTree(recursion.repl).rules) = "aaaaabbbbb"

\* C12 as amended: the tree built from the four repetitions unparses to four
\* a, then ab, then four b; the mutation handed to the tester puts that tree
\* in the place of rec1, inside the original opening and closing, and
\* unparses to five a, then ab, then five b.
C12_RecursionTreeUnparse ==
  (/\ pc = "done"
   /\ tree.rules = <<0, 1>>
   /\ recursion.rec0 = 0 /\ recursion.rec1 = 1
   /\ recursion.num_of_recursions = 4) =>
    /\ Unparse(recursion.recursion_tree.rules) = "aaaaabbbbb"
    /\ recursion.repl.prefix = <<0>>
    /\ recursion.repl.repl = recursion.recursion_tree.rules
    /\ recursion.repl.postfix = <<>>
    /\ Unparse(ToTree(recursion.repl).rules) = "aaaaaabbbbbb"

\* the sole recursion pair of the tree of aabb was repeated four times
C12_Witness ==
  /\ pc = "done"
  /\ tree.rules = <<0, 1>>
  /\ RecursionPairs(tree) = {<<0, 1>>}
  /\ recursion.rec0 = 0 /\ recursion.rec1 = 1
  /\ recursion.num_of_recursions = 4
  /\ recursion.max_len_of_recursions = 4

\* C13: in every reachable state the first id of each posting list is the
\* smallest id of that list.
C13_FirstIsSmallest ==
  \A b \in DOMAIN bit_to_inputs :
    \A k \in 1..Len(bit_to_inputs[b]) :
      bit_to_inputs[b][1] <= bit_to_inputs[b][k]

\* C13 as amended: Add and Pop keep every posting list in non-decreasing id
\* order, and with it the first id the smallest one (Add appends the newest
\* id, Pop only erases); Finished appends the id of the item handed back,
\* which may be older than ids already in the list.
C13_AddPopKeepOrder ==
  [][(/\ qop'.name \in {"Add", "Pop"}
      /\ \A b \in DOMAIN bit_to_inputs :
           \A k \in 1..(Len(bit_to_inputs[b]) - 1) :
             bit_to_inputs[b][k] <= bit_to_inputs[b][k + 1])
       => /\ \A b \in DOMAIN bit_to_inputs' :
               \A k \in 1..(Len(bit_to_inputs'[b]) - 1) :
                 bit_to_inputs'[b][k] <= bit_to_inputs'[b][k + 1]
          /\ C13_FirstIsSmallest']_vars

\* an Add has appended its id behind an older id
C13_Witness ==
  /\ qop.name = "Add"
  /\ qop.outcome = "added"
  /\ \E b \in DOMAIN bit_to_inputs :
       /\ Len(bit_to_inputs[b]) >= 2
       /\ bit_to_inputs[b][Len(bit_to_inputs[b])] = current_id - 1
       /\ bit_to_inputs[b][1] < current_id - 1

\* C14: an Add that skips its input still advances current_id by one.
C14_SkipReservesId ==
  [][(qop'.name = "Add" /\ qop'.outcome = "skipped" /\ qop' # qop)
       => current_id' = NextId(current_id)]_vars

\* C14 as amended: an Add that skips its input returns before the id is
\* advanced, so current_id is what it was; only an Add that stores its input
\* advances current_id.
C14_SkipKeepsId ==
  [][(\E all_bits \in Bitmaps, exit_reason \in ExitReasons,
         open_ok \in BOOLEAN : Add(all_bits, exit_reason, open_ok))
       => IF Len(inputs') > Len(inputs)
            THEN current_id' = NextId(current_id)
            ELSE current_id' = current_id]_vars

\* an input with set bits, none of them new, was skipped after ids had been
\* handed out
C14_Witness ==
  /\ qop.name = "Add"
  /\ qop.outcome = "skipped"
  /\ qop.nonzero
  /\ current_id = 1
  /\ Len(inputs) = 1

(***************************************************************************)
(* Mutator::MinimizeRec                                                    *)
(***************************************************************************)

\* Mutator::FindParentWithNT: the walk up the GetParent chain from cur to the
\* first node whose rule has nonterminal nt; -1 stands for std::nullopt
RECURSIVE FindParentFrom(_, _, _)
FindParentFrom(t, cur, nt) ==
  LET parent == GetParent(t, cur)
  IN IF parent < 0 THEN -1
     ELSE IF Nonterm(GetRule(t, parent)) = nt THEN parent
          ELSE FindParentFrom(t, parent, nt)

FindParentWithNTMut(t, node) ==
  LET parent == GetParent(t, node)
  IN IF parent >= 0 /\ Nonterm(GetRule(t, parent)) = Nonterm(GetRule(t, node))
       THEN parent ELSE -1
FindParentWithNT(t, node) == FindParentFrom(t, node, Nonterm(GetRule(t, node)))

\* one pass through the loop of Mutator::MinimizeRec, or its final return
MinimizeRecStep ==
  /\ pc = "MinimizeRec"
  /\ IF i < Size(tree)
       THEN \E parent \in {FindParentWithNT(tree, i)} :
               /\ examined' = Append(examined, i)
               /\ IF parent >= 0
                    THEN \E repl \in {MutateReplaceFromTree(tree, parent,
                                                           tree, i)} :
                            \E accept \in Answers(repl) :
                              LET t == TestAndConvert(tree, parent, tree, i,
                                                      accept)
                                  j == (IF t.has_value THEN parent ELSE i) + 1
                              IN /\ tree' = IF t.has_value THEN t.value
                                            ELSE tree
                                 /\ verdict' = Record(repl, accept)
                                 /\ proposal' = [node |-> i,
                                                 after |-> collapsed,
                                                 parent |-> parent,
                                                 mutation |-> repl,
                                                 accepted |-> t.has_value]
                                 /\ collapsed' = IF t.has_value THEN parent
                                                 ELSE -1
                                 /\ i' = j
                                 /\ IF ReachedEnd(j, end_index)
                                      THEN pc' = "done" /\ ret' = FALSE
                                      ELSE UNCHANGED <<pc, ret>>
                    ELSE /\ proposal' = [node |-> i, after |-> collapsed,
                                         parent |-> -1]
                         /\ collapsed' = -1
                         /\ i' = i + 1
                         /\ IF ReachedEnd(i + 1, end_index)
                              THEN pc' = "done" /\ ret' = FALSE
                              ELSE UNCHANGED <<pc, ret>>
                         /\ UNCHANGED <<tree, verdict>>
       ELSE /\ pc' = "done"
            /\ ret' = TRUE
            /\ UNCHANGED <<tree, i, verdict, examined, proposal, collapsed>>
  /\ UNCHANGED <<tree_in, start_index, end_index, rejected, probe, recursion,
                 tested>>
  /\ UNCHANGED qvars
  /\ UNCHANGED vvars

InitMinimizeRec == QInit /\ InitMutator("MinimizeRec") /\ VIdle

NextMinimizeRec == MinimizeRecStep

SpecMinimizeRec == InitMinimizeRec /\ [][NextMinimizeRec]_vars

\* C20: a pass of MinimizeRec over node n proposes the tree in which the
\* subtree of n's nearest proper ancestor of the same nonterminal is replaced
\* by the subtree at n, and nothing if there is no such ancestor; an accepted
\* proposal becomes the tree; the pass after an accepted collapse examines
\* the node at the ancestor's index.
C20_CollapseAndResumeAtAncestor ==
  [][(pc = "MinimizeRec" /\ Len(examined') > Len(examined)) =>
       LET n == i
           same == {p \in 0..(n - 1) :
                      /\ p + tree.sizes[p + 1] > n
                      /\ Nonterm(tree.rules[p + 1]) = Nonterm(tree.rules[n + 1])}
       IN /\ examined'[Len(examined')] = n
          /\ IF same = {}
               THEN proposal'.parent = -1 /\ tree' = tree
               ELSE LET a == CHOOSE p \in same : \A q \in same : q <= p
                        collapse ==
                          SubSeq(tree.rules, 1, a)
                            \o SubSeq(tree.rules, n + 1, n + tree.sizes[n + 1])
                            \o SubSeq(tree.rules, a + tree.sizes[a + 1] + 1,
                                      Len(tree.rules))
                    IN /\ proposal'.parent = a
                       /\ ToTree(proposal'.mutation).rules = collapse
                       /\ tree' = IF proposal'.accepted
                                    THEN TreeFromRules(collapse) ELSE tree
          /\ collapsed >= 0 => n = collapsed]_vars

\* C20 as amended: the same proposals and the same effect of an acceptance;
\* after an accepted collapse the index is set to the ancestor's index and
\* then incremented, so the pass after it examines the node that follows the
\* collapsed position.
C20_CollapseAndResumeBehindAncestor ==
  [][(pc = "MinimizeRec" /\ Len(examined') > Len(examined)) =>
       LET n == i
           same == {p \in 0..(n - 1) :
                      /\ p + tree.sizes[p + 1] > n
                      /\ Nonterm(tree.rules[p + 1]) = Nonterm(tree.rules[n + 1])}
       IN /\ examined'[Len(examined')] = n
          /\ IF same = {}
               THEN proposal'.parent = -1 /\ tree' = tree
               ELSE LET a == CHOOSE p \in same : \A q \in same : q <= p
                        collapse ==
                          SubSeq(tree.rules, 1, a)
                            \o SubSeq(tree.rules, n + 1, n + tree.sizes[n + 1])
                            \o SubSeq(tree.rules, a + tree.sizes[a + 1] + 1,
                                      Len(tree.rules))
                    IN /\ proposal'.parent = a
                       /\ ToTree(proposal'.mutation).rules = collapse
                       /\ tree' = IF proposal'.accepted
                                    THEN TreeFromRules(collapse) ELSE tree
          /\ collapsed >= 0 => n = collapsed + 1]_vars

\* a node was examined right after an accepted collapse and has itself an
\* ancestor of the same nonterminal
C20_Witness ==
  /\ proposal.node >= 0
  /\ proposal.after >= 0
  /\ proposal.node = proposal.after + 1
  /\ proposal.parent >= 0
  /\ Len(examined) >= 2

(***************************************************************************)
(* Mutator::MutRules                                                       *)
(***************************************************************************)

\* largest random length GetRandomLenForRuleID is taken to return
MaxGenLen == 3

\* the vector Context::GetRulesForNT returns, in rule id order
RuleIdsForNT(nt) ==
  SelectSeq([k \in 1..Len(Grammar) |-> k - 1], LAMBDA r : Nonterm(r) = nt)

\* the least size of a tree whose root is rule r
GetMinLenForRule(r) ==
  1 + SumSeq(MinLens, Nonterms(r))

\* Context::GetRandomLenForRuleID: the lengths it may return
GetRandomLenForRuleID(r) ==
  {len \in 1..MaxGenLen : len >= GetMinLenForRule(r)} \cup {GetMinLenForRule(r)}

\* Tree::GenerateFromRule into the scratchpad: the trees with root rule r
\* whose size does not exceed len
GenerateFromRule(r, len) ==
  {TreeFromRules(<<r>> \o f) :
     f \in UNION {ForestVecs(Nonterms(r), n - 1) : n \in 1..len}}

\* "Mutate by a new rule": the test of old_rule_id against new_rule_id
IsAlternativeMut(old_rule_id, new_rule_id) == TRUE
IsAlternative(old_rule_id, new_rule_id) == old_rule_id # new_rule_id

\* one pass through the loop of Mutator::MutRules, or its final return
MutRulesStep ==
  /\ pc = "MutRules"
  /\ IF i < end_index
       THEN IF i = Size(tree)
              THEN /\ pc' = "done"
                   /\ ret' = TRUE
                   /\ UNCHANGED <<i, examined, proposal, tested>>
              ELSE LET old_rule_id == GetRule(tree, i)
                       rule_ids == SelectSeq(
                         RuleIdsForNT(Nonterm(old_rule_id)),
                         LAMBDA new_rule_id :
                           IsAlternative(old_rule_id, new_rule_id))
                       scratchpads == [k \in 1..Len(rule_ids) |->
                         UNION {GenerateFromRule(rule_ids[k], random_size) :
                           random_size \in
                             GetRandomLenForRuleID(rule_ids[k])}]
                   IN \E gen \in [1..Len(rule_ids) ->
                                    UNION Range(scratchpads)] :
                        /\ \A k \in 1..Len(rule_ids) :
                             gen[k] \in scratchpads[k]
                        /\ proposal' =
                             [node |-> i,
                              mutations |->
                                [k \in 1..Len(rule_ids) |->
                                   MutateReplaceFromTree(tree, i, gen[k], 0)]]
                        /\ tested' = tested \o
                             [k \in 1..Len(rule_ids) |-> <<i, rule_ids[k]>>]
                        /\ examined' = Append(examined, i)
                        /\ i' = i + 1
                        /\ UNCHANGED <<pc, ret>>
       ELSE /\ pc' = "done"
            /\ ret' = FALSE
            /\ UNCHANGED <<i, examined, proposal, tested>>
  /\ UNCHANGED <<tree, tree_in, start_index, end_index, verdict, rejected,
                 probe, recursion, collapsed>>
  /\ UNCHANGED qvars
  /\ UNCHANGED vvars

\* the callers start a walk at 0 and continue it where the call before
\* stopped, which is never behind the end of the tree
InitMutRules ==
  /\ QInit
  /\ VIdle
  /\ InitMutator("MutRules")
  /\ start_index <= Size(tree)

NextMutRules == MutRulesStep

SpecMutRules == InitMutRules /\ [][NextMutRules]_vars

\* C19: MutRules never changes the tree; the nodes it visits are start,
\* start+1, ... below min(end, size); for each of them the tester is called
\* once for every rule of the node's nonterminal but the node's own, and for
\* no other rule; each proposal differs from the tree only in the subtree at
\* the visited node; it returns true iff the tree ends below index end.
C19_RulesMutation ==
  LET bound == IF end_index < Size(tree) THEN end_index ELSE Size(tree)
      calls(n, r) == Cardinality({k \in 1..Len(tested) : tested[k] = <<n, r>>})
  IN /\ tree = tree_in
     /\ \A k \in 1..Len(examined) :
          examined[k] = start_index + k - 1 /\ examined[k] < bound
     /\ \A k \in 1..Len(tested) : tested[k][1] \in Range(examined)
     /\ \A n \in Range(examined), r \in RuleIDs :
          calls(n, r) =
            IF Nonterm(r) = Nonterm(tree.rules[n + 1]) /\ r # tree.rules[n + 1]
              THEN 1 ELSE 0
     /\ proposal.node >= 0 =>
          LET n == proposal.node
          IN \A k \in 1..Len(proposal.mutations) :
               LET m == proposal.mutations[k]
               IN /\ m.prefix = SubSeq(tree.rules, 1, n)
                  /\ m.postfix = SubSeq(tree.rules, n + tree.sizes[n + 1] + 1,
                                        Len(tree.rules))
                  /\ m.repl[1] = tested[Len(tested) - Len(proposal.mutations)
                                        + k][2]
                  /\ TreeOK(TreeFromRules(m.repl))
                  /\ TreeOK(ToTree(m))
     /\ pc = "done" =>
          /\ Len(examined) = IF bound > start_index THEN bound - start_index
                             ELSE 0
          /\ ret = (Size(tree) < end_index)

\* MutRules walked at least two nodes, called the tester for each, and ran
\* off the end of the tree
C19_Witness ==
  /\ pc = "done"
  /\ ret = TRUE
  /\ Len(examined) >= 2
  /\ Len(tested) >= 3
  /\ start_index > 0

\* MutRules stopped at end_index inside the tree
C19_WitnessStopped ==
  /\ pc = "done"
  /\ ret = FALSE
  /\ Len(examined) >= 1
  /\ end_index < Size(tree)

(***************************************************************************)
(* VUzzer: constructor, PerformDryRun, FillSeeds and the fuzz loop         *)
(***************************************************************************)

MaxSeeds == 3
MaxPop == 6
NumBBs == 2

\* the basic block addresses ParseBBCov can report
BBs == 1..NumBBs

\* "for (int i = 0; i < 60; i++)"
DryRunIterations == 60

\* "if (state.pending_queue.size() < 3)"
InsufficientSeedsMut(n) == n < 2
InsufficientSeeds(n) == n < 3

\* the insertion of the blocks of one random run into state.ehb
EhbInsertMut(set, bb_cov, good) == set \cup bb_cov
EhbInsert(set, bb_cov, good) == set \cup {addr \in bb_cov : addr \notin good}

\* VUzzerState::AddToQueue: a new testcase, numbered by queued_paths, at the
\* end of the queue
AddToQueue(queue, id) == Append(queue, id)

\* "size - sz > 1" of the crossover branch
CanCrossOverMut(size, n) == TRUE
CanCrossOver(size, n) == size - n > 1

\* hierarflow: a created node, a << b and a || b.  A flow is its head nodes,
\* the node further nodes are attached to, and its parent-child edges in the
\* order they were made.
CreateNode(routine) ==
  [heads |-> <<routine>>, tail |-> routine, edges |-> <<>>]
Chain(a, b) ==
  [heads |-> a.heads,
   tail |-> b.tail,
   edges |-> a.edges \o [k \in 1..Len(b.heads) |-> <<a.tail, b.heads[k]>>]
               \o b.edges]
Par(a, b) ==
  [heads |-> a.heads \o b.heads, tail |-> b.tail, edges |-> a.edges \o b.edges]

\* VUzzer::BuildFuzzFlow; << binds tighter than ||
BuildFuzzFlowMut ==
  LET fuzz_loop == CreateNode("FuzzLoop")
      decide_keep == CreateNode("DecideKeep")
      run_ehb == CreateNode("RunEHB")
      execute == CreateNode("ExecutePUT")
      update_fitness == CreateNode("UpdateFitness")
      trim_queue == CreateNode("TrimQueue")
      execute_taint == CreateNode("ExecuteTaintPUT")
      update_taint == CreateNode("UpdateTaint")
      mutate == CreateNode("Mutate")
      update_queue == CreateNode("UpdateQueue")
  IN Chain(Chain(Chain(fuzz_loop, decide_keep), run_ehb),
           Par(Par(Par(Chain(Chain(execute, update_fitness), trim_queue),
                       Chain(execute_taint, update_taint)),
                   update_queue),
               mutate))
BuildFuzzFlow ==
  LET fuzz_loop == CreateNode("FuzzLoop")
      decide_keep == CreateNode("DecideKeep")
      run_ehb == CreateNode("RunEHB")
      execute == CreateNode("ExecutePUT")
      update_fitness == CreateNode("UpdateFitness")
      trim_queue == CreateNode("TrimQueue")
      execute_taint == CreateNode("ExecuteTaintPUT")
      update_taint == CreateNode("UpdateTaint")
      mutate == CreateNode("Mutate")
      update_queue == CreateNode("UpdateQueue")
  IN Chain(Chain(Chain(fuzz_loop, decide_keep), run_ehb),
           Par(Par(Par(Chain(Chain(execute, update_fitness), trim_queue),
                       Chain(execute_taint, update_taint)),
                   mutate),
               update_queue))

\* the successors of a node, in calling order
Successors(flow, node) ==
  LET mine == SelectSeq(flow.edges, LAMBDA e : e[1] = node)
  IN [k \in 1..Len(mine) |-> mine[k][2]]

\* the state in which the constructor calls PerformDryRun: ReadTestcases has
\* put the seeds into pending_queue
VInit ==
  /\ \E n \in 0..MaxSeeds :
       /\ pending_queue = [k \in 1..n |-> k - 1]
       /\ queued_paths = n
  /\ pop_size \in 0..MaxPop
  /\ good_bbs = {}
  /\ ehb = {}
  /\ vpc = "PerformDryRun"
  /\ vi = 0
  /\ put_runs = 0
  /\ taint_runs = 0
  /\ random_runs = 0
  /\ seed_bbs = {}
  /\ random_bbs = {}
  /\ seed_size = 0
  /\ fill_size = 0
  /\ sz = 0
  /\ initial_queue = <<>>
  /\ parents = <<>>
  /\ flow_stack = <<>>
  /\ flow_trace = <<>>

\* PerformDryRun: the test of the number of seeds
DryRunCheck ==
  /\ vpc = "PerformDryRun"
  /\ vpc' = IF InsufficientSeeds(Len(pending_queue)) THEN "fatal"
            ELSE "dry_seeds"
  /\ UNCHANGED <<pending_queue, queued_paths, pop_size, good_bbs, ehb, vi,
                 put_runs, taint_runs, random_runs, seed_bbs, random_bbs,
                 seed_size, fill_size, sz, initial_queue, parents, flow_stack,
                 flow_trace>>
  /\ UNCHANGED qvars
  /\ UNCHANGED mvars

\* PerformDryRun: one pass of the loop over the seeds, or its end
DryRunSeed ==
  /\ vpc = "dry_seeds"
  /\ IF vi < Len(pending_queue)
       THEN \E bb_cov \in SUBSET BBs :
              /\ good_bbs' = good_bbs \cup bb_cov
              /\ seed_bbs' = seed_bbs \cup bb_cov
              /\ put_runs' = put_runs + 1
              /\ vi' = vi + 1
              /\ UNCHANGED vpc
       ELSE /\ vpc' = "dry_random"
            /\ vi' = 0
            /\ UNCHANGED <<good_bbs, seed_bbs, put_runs>>
  /\ UNCHANGED <<pending_queue, queued_paths, pop_size, ehb, taint_runs,
                 random_runs, random_bbs, seed_size, fill_size, sz,
                 initial_queue, parents, flow_stack, flow_trace>>
  /\ UNCHANGED qvars
  /\ UNCHANGED mvars

\* PerformDryRun: one pass of the loop over the random inputs, or its end
DryRunRandom ==
  /\ vpc = "dry_random"
  /\ IF vi < DryRunIterations
       THEN \E testcase \in 1..Len(pending_queue), bb_cov \in SUBSET BBs :
              /\ ehb' = EhbInsert(ehb, bb_cov, good_bbs)
              /\ random_bbs' = random_bbs \cup bb_cov
              /\ put_runs' = put_runs + 1
              /\ random_runs' = random_runs + 1
              /\ vi' = vi + 1
              /\ UNCHANGED vpc
       ELSE /\ vpc' = "dry_taint"
            /\ vi' = 0
            /\ UNCHANGED <<ehb, random_bbs, put_runs, random_runs>>
  /\ UNCHANGED <<pending_queue, queued_paths, pop_size, good_bbs, taint_runs,
                 seed_bbs, seed_size, fill_size, sz, initial_queue, parents,
                 flow_stack, flow_trace>>
  /\ UNCHANGED qvars
  /\ UNCHANGED mvars

\* PerformDryRun: one pass of the loop of taint runs, or the return
DryRunTaint ==
  /\ vpc = "dry_taint"
  /\ IF vi < Len(pending_queue)
       THEN /\ taint_runs' = taint_runs + 1
            /\ vi' = vi + 1
            /\ UNCHANGED vpc
       ELSE /\ vpc' = "dry_done"
            /\ vi' = 0
            /\ UNCHANGED taint_runs
  /\ UNCHANGED <<pending_queue, queued_paths, pop_size, good_bbs, ehb,
                 put_runs, random_runs, seed_bbs, random_bbs, seed_size,
                 fill_size, sz, initial_queue, parents, flow_stack,
                 flow_trace>>
  /\ UNCHANGED qvars
  /\ UNCHANGED mvars

\* the constructor behind PerformDryRun, up to the first test of FillSeeds'
\* loop
Construct ==
  /\ vpc = "dry_done"
  /\ seed_size' = Len(pending_queue)
  /\ IF Len(pending_queue) < pop_size
       THEN /\ vpc' = "FillSeeds"
            /\ fill_size' = pop_size - Len(pending_queue)
            /\ sz' = 0
            /\ initial_queue' = pending_queue
       ELSE /\ vpc' = "constructed"
            /\ UNCHANGED <<fill_size, sz, initial_queue>>
  /\ UNCHANGED <<pending_queue, queued_paths, pop_size, good_bbs, ehb, vi,
                 put_runs, taint_runs, random_runs, seed_bbs, random_bbs,
                 parents, flow_stack, flow_trace>>
  /\ UNCHANGED qvars
  /\ UNCHANGED mvars

\* one pass of the loop of FillSeeds, or its return; cut is the outcome of
\* distr_cut(eng) > (1.0 - fill_seeds_with_crossover_prob)
FillSeedsStep ==
  /\ vpc = "FillSeeds"
  /\ IF sz < fill_size
       THEN \E cut \in BOOLEAN :
              IF cut /\ CanCrossOver(fill_size, sz)
                THEN \E a, b \in 1..Len(initial_queue) :
                       /\ a < b
                       /\ parents' = <<initial_queue[a], initial_queue[b]>>
                       /\ pending_queue' =
                            AddToQueue(AddToQueue(pending_queue, queued_paths),
                                       queued_paths + 1)
                       /\ queued_paths' = queued_paths + 2
                       /\ sz' = sz + 2
                       /\ UNCHANGED vpc
                ELSE \E a \in 1..Len(pending_queue) :
                       /\ parents' = <<pending_queue[a]>>
                       /\ pending_queue' =
                            AddToQueue(pending_queue, queued_paths)
                       /\ queued_paths' = queued_paths + 1
                       /\ sz' = sz + 1
                       /\ UNCHANGED vpc
       ELSE /\ vpc' = "constructed"
            /\ UNCHANGED <<pending_queue, queued_paths, sz, parents>>
  /\ UNCHANGED <<pop_size, good_bbs, ehb, vi, put_runs, taint_runs,
                 random_runs, seed_bbs, random_bbs, seed_size, fill_size,
                 initial_queue, flow_stack, flow_trace>>
  /\ UNCHANGED qvars
  /\ UNCHANGED mvars

\* VUzzer::OneLoop: the call of the head node of the flow
OneLoop ==
  /\ vpc = "constructed"
  /\ vpc' = "OneLoop"
  /\ flow_stack' = BuildFuzzFlow.heads
  /\ flow_trace' = <<>>
  /\ UNCHANGED <<pending_queue, queued_paths, pop_size, good_bbs, ehb, vi,
                 put_runs, taint_runs, random_runs, seed_bbs, random_bbs,
                 seed_size, fill_size, sz, initial_queue, parents>>
  /\ UNCHANGED qvars
  /\ UNCHANGED mvars

\* the call of the next node of the flow: the node runs, then its
\* successors, then the nodes that were waiting behind it
CallNode ==
  /\ vpc = "OneLoop"
  /\ flow_stack # <<>>
  /\ flow_trace' = Append(flow_trace, Head(flow_stack))
  /\ flow_stack' = Successors(BuildFuzzFlow, Head(flow_stack))
                     \o Tail(flow_stack)
  /\ vpc' = IF flow_stack' = <<>> THEN "constructed" ELSE "OneLoop"
  /\ UNCHANGED <<pending_queue, queued_paths, pop_size, good_bbs, ehb, vi,
                 put_runs, taint_runs, random_runs, seed_bbs, random_bbs,
                 seed_size, fill_size, sz, initial_queue, parents>>
  /\ UNCHANGED qvars
  /\ UNCHANGED mvars

InitVUzzer == QInit /\ MIdle /\ VInit

NextVUzzer ==
  \/ DryRunCheck
  \/ DryRunSeed
  \/ DryRunRandom
  \/ DryRunTaint
  \/ Construct
  \/ FillSeedsStep
  \/ OneLoop
  \/ CallNode

SpecVUzzer == InitVUzzer /\ [][NextVUzzer]_vars

\* the constructor and the loop are one thread that keeps running
SpecVUzzerFair == SpecVUzzer /\ WF_vars(NextVUzzer)

\* C15: with fewer than 3 testcases PerformDryRun fails fatally before the
\* PUT was executed on any input; with 3 or more it does not fail and goes
\* on to execute.
C15_DryRunNeedsThreeSeeds ==
  /\ Len(pending_queue) < 3 =>
       /\ vpc \in {"PerformDryRun", "fatal"}
       /\ put_runs = 0 /\ random_runs = 0 /\ taint_runs = 0
       /\ good_bbs = {} /\ ehb = {}
  /\ Len(pending_queue) >= 3 => vpc # "fatal"
  /\ vpc = "dry_done" => put_runs >= 3

\* PerformDryRun has failed on two seeds
C15_Witness ==
  /\ vpc = "fatal"
  /\ Len(pending_queue) = 2

\* PerformDryRun has run the PUT on three seeds
C15_WitnessProceeds ==
  /\ vpc = "dry_random"
  /\ Len(pending_queue) = 3
  /\ put_runs = 3

\* C16: when PerformDryRun has returned, good_bbs is the union of the blocks
\* of the seeds' runs, 60 random inputs have been executed, ehb is the set
\* of blocks of the random runs that are not in good_bbs, and ehb and
\* good_bbs are disjoint.
C16_DryRunSets ==
  vpc = "dry_done" =>
    /\ good_bbs = seed_bbs
    /\ random_runs = 60
    /\ put_runs = Len(pending_queue) + 60
    /\ ehb = random_bbs \ good_bbs
    /\ ehb \cap good_bbs = {}

\* PerformDryRun has returned with a block in each set and a block of a
\* random run that is a good block
C16_Witness ==
  /\ vpc = "dry_done"
  /\ good_bbs # {}
  /\ ehb # {}
  /\ random_bbs \cap good_bbs # {}

\* C17: FillSeeds returns, and when it does it has appended exactly size
\* testcases; the crossover branch, which appends two, runs only while two
\* slots remain; after the constructor pending_queue holds
\* max(seed_count, pop_size) testcases.
C17_FillSeedsExact ==
  /\ [](vpc = "FillSeeds" =>
          /\ sz <= fill_size
          /\ Len(pending_queue) = Len(initial_queue) + sz)
  /\ [](vpc \in {"constructed", "OneLoop"} =>
          /\ Len(pending_queue) =
               IF seed_size > pop_size THEN seed_size ELSE pop_size
          /\ (Len(initial_queue) > 0 =>
                Len(pending_queue) = Len(initial_queue) + fill_size))
  /\ [][Len(pending_queue') = Len(pending_queue) + 2
         => fill_size - sz >= 2]_vars
  /\ (vpc = "FillSeeds") ~> (vpc = "constructed")

\* FillSeeds has returned after a crossover and a single mutation
C17_Witness ==
  /\ vpc = "constructed"
  /\ fill_size = 3
  /\ sz = 3
  /\ Len(parents) = 1
  /\ Len(pending_queue) = 6

\* C18: in one iteration the nodes are called in the order DecideKeep,
\* RunEHB, ExecutePUT, UpdateFitness, TrimQueue, ExecuteTaintPUT,
\* UpdateTaint, Mutate, UpdateQueue, behind the head node FuzzLoop.
C18_PipelineOrder ==
  LET order == <<"FuzzLoop", "DecideKeep", "RunEHB", "ExecutePUT",
                 "UpdateFitness", "TrimQueue", "ExecuteTaintPUT",
                 "UpdateTaint", "Mutate", "UpdateQueue">>
  IN /\ Len(flow_trace) <= Len(order)
     /\ flow_trace = SubSeq(order, 1, Len(flow_trace))
     /\ (vpc = "constructed" /\ flow_trace # <<>>) => flow_trace = order

\* an iteration has called all its nodes
C18_Witness ==
  /\ vpc = "constructed"
  /\ Len(flow_trace) = 10
  /\ flow_trace[10] = "UpdateQueue"

C22_ParentsAreInitialSeeds ==
  \A k \in 1..Len(parents) : parents[k] \in Range(initial_queue)

(***************************************************************************)
(* The queue at id saturation                                              *)
(***************************************************************************)

\* a new queue, or a queue whose ids have all been handed out but the last
\* one and whose items have all been popped
InitSaturation ==
  /\ inputs = <<>>
  /\ processed = <<>>
  /\ bit_to_inputs = <<>>
  /\ current_id \in {0, SIZE_MAX}
  /\ files = {}
  /\ held = {}
  /\ io_failures = 0
  /\ qop = [name |-> "init"]
  /\ MIdle
  /\ VIdle

SpecSaturation == InitSaturation /\ [][Next]_vars

\* C23: an Add that stores its input gives the item the id current_id and
\* the corpus file that id, and then advances current_id by one, to 0 from
\* the maximum value; as long as the maximum has not been handed out, the
\* new id is above the id of every item stored before, so that no two items
\* share an id or a file name.
C23_IdSequence ==
  [][(qop'.name = "Add" /\ qop'.outcome = "added") =>
       LET item == inputs'[Len(inputs')]
       IN /\ item.id = current_id
          /\ files' = files \cup {<<current_id, item.exit_reason>>}
          /\ current_id' = IF current_id = SIZE_MAX THEN 0 ELSE current_id + 1
          /\ (\A f \in files : f[1] # SIZE_MAX) =>
               /\ \A f \in files : f[1] < current_id
               /\ \A k \in 1..Len(inputs) : inputs[k].id < current_id
               /\ \A k \in 1..Len(processed) : processed[k].id < current_id
               /\ \A it \in held : it.id < current_id]_vars

\* an item was stored under the maximum id and the id has wrapped to 0
C23_Witness ==
  /\ qop.name = "Add"
  /\ qop.outcome = "added"
  /\ current_id = 0
  /\ <<SIZE_MAX, 0>> \in files

\* C24: no QueueItem id occurs more than once across inputs and processed
\* together: an item is never pending and processed at once, and never
\* queued twice.
C24_NoDuplicateIds ==
  LET all == inputs \o processed
  IN \A a, b \in 1..Len(all) : all[a].id = all[b].id => a = b

\* C25: an Add that fails with unable_to_create_file leaves inputs,
\* bit_to_inputs and current_id unchanged.
C25_FailedAddChangesNothing ==
  [][(qop'.name = "Add" /\ qop'.outcome = "unable_to_create_file") =>
       UNCHANGED <<inputs, bit_to_inputs, current_id>>]_vars

(***************************************************************************)
(* Termination of Mutator::MinimizeTree and Mutator::MinimizeRec           *)
(***************************************************************************)

\* a call of MinimizeTree or of MinimizeRec
InitMinimizers ==
  /\ QInit
  /\ InitMutator("MinimizeTree") \/ InitMutator("MinimizeRec")
  /\ VIdle

NextMinimizers == MinimizeTreeStep \/ MinimizeRecStep

SpecMinimizers == InitMinimizers /\ [][NextMinimizers]_vars

\* the thread that runs the loop keeps running it
SpecMinimizersFair == SpecMinimizers /\ WF_vars(NextMinimizers)

\* C26: MinimizeTree and MinimizeRec return for every tree, every start and
\* end index and every tester: a pass of MinimizeTree's loop raises the index
\* by one; a pass of MinimizeRec's loop whose collapse is accepted makes the
\* tree strictly smaller and every other pass leaves the tree and raises the
\* index by one; the index never passes the tree's size once it has moved.
C26_MinimizersTerminate ==
  /\ <>(pc = "done")
  /\ [](i <= Size(tree) \/ i = start_index)
  /\ [][(pc = "MinimizeTree" /\ Len(examined') > Len(examined)) =>
          (i' = i + 1 /\ Size(tree') <= Size(tree))]_vars
  /\ [][(pc = "MinimizeRec" /\ Len(examined') > Len(examined)) =>
          IF proposal'.parent >= 0 /\ proposal'.accepted
            THEN Size(tree') < Size(tree)
            ELSE tree' = tree /\ i' = i + 1]_vars

\* MinimizeRec has returned after an accepted collapse took the index back
C26_Witness ==
  /\ pc = "done"
  /\ proposal.node >= 0
  /\ Size(tree) < Size(tree_in)
  /\ \E k \in 1..(Len(examined) - 1) : examined[k + 1] <= examined[k]

====
